---- MODULE Spec2Model ----
(***************************************************************************)
(* Model of the BayesFlow flow-matching inference network                  *)
(* (bayesflow/networks/flow_matching/flow_matching.py) and of the          *)
(* deep-set EquivariantModule                                              *)
(* (bayesflow/experimental/networks/deep_set/equivariant_module.py).       *)
(*                                                                         *)
(* Tensors are finite sequences of exact rationals <<num, den>>.  The      *)
(* integrator family, the velocity helper, the base distribution, the      *)
(* optimal-transport coupling and the InvariantModule are imported by the  *)
(* two files but are not part of the sources at hand; they are modelled    *)
(* from the design document and are marked as such where defined.          *)
(***************************************************************************)
EXTENDS Integers, Sequences, FiniteSets, TLC

VARIABLES
    params,     \* velocity-field parameters (subnet + output_projector weights)
    use_ot,     \* FlowMatching.use_optimal_transport
    built,      \* result of FlowMatching.build, or NotBuilt
    seed,       \* number of draws taken from FlowMatching.seed_generator
    pc,         \* "idle" | "integrating" | "raised"
    frame,      \* the running / last integration call
    train,      \* the training pair of the last compute_metrics
    ret,        \* what the last operation returned to its caller
    eq_params,  \* EquivariantModule weights and configuration
    eq_ret      \* last EquivariantModule.call: its input and output

vars == <<params, use_ot, built, seed, pc, frame, train, ret, eq_params, eq_ret>>
fmVars == <<params, use_ot, built, seed, pc, frame, train, ret>>
eqVars == <<eq_params, eq_ret>>

-----------------------------------------------------------------------------
(* Bounds of the model *)
MaxSteps == 2
MaxVal == 1
MaxDim == 2
MaxDraws == 3
MaxSet == 3

(* kwargs.get("steps", 100) *)
DefaultSteps == 100

-----------------------------------------------------------------------------
(* Exact rational arithmetic: <<n, d>> with d > 0 and gcd(n, d) = 1 *)
Abs(n) == IF n < 0 THEN -n ELSE n

RECURSIVE GCD(_, _)
GCD(a, b) == IF b = 0 THEN a ELSE GCD(b, a % b)

Norm(n, d) ==
    LET s == IF d < 0 THEN -1 ELSE 1
        g == GCD(Abs(n), Abs(d))
    IN <<(s * n) \div g, (s * d) \div g>>

R(n) == <<n, 1>>
Zero == R(0)
One == R(1)
Half == <<1, 2>>

RAdd(p, q) ==
    LET g == GCD(p[2], q[2])
    IN Norm(p[1] * (q[2] \div g) + q[1] * (p[2] \div g), (p[2] \div g) * q[2])

RNeg(p) == <<-p[1], p[2]>>
RSub(p, q) == RAdd(p, RNeg(q))

RMul(p, q) ==
    LET g1 == GCD(Abs(p[1]), q[2])
        g2 == GCD(Abs(q[1]), p[2])
    IN <<(p[1] \div g1) * (q[1] \div g2), (p[2] \div g2) * (q[2] \div g1)>>

RInv(n) == <<1, n>>
(* p <= q, by integer parts and then the reciprocals of the fractions, so   *)
(* that no product of the two denominators is formed                        *)
RECURSIVE RLeq(_, _)
RLeq(p, q) ==
    LET ip == p[1] \div p[2]
        iq == q[1] \div q[2]
        fp == p[1] % p[2]
        fq == q[1] % q[2]
    IN IF ip # iq THEN ip < iq
       ELSE IF fp = 0 THEN TRUE
       ELSE IF fq = 0 THEN FALSE
       ELSE RLeq(<<q[2], fq>>, <<p[2], fp>>)
RLt(p, q) == ~RLeq(q, p)
RAbs(p) == <<Abs(p[1]), p[2]>>

RECURSIVE RSum(_)
RSum(s) == IF s = <<>> THEN Zero ELSE RAdd(Head(s), RSum(Tail(s)))

(* Tensors of one axis; Tup makes a function on 1..n an explicit tuple *)
Tup(f) == f \o <<>>
VScale(r, v) == Tup([j \in 1..Len(v) |-> RMul(r, v[j])])
VMap2(Op(_, _), u, v) == Tup([j \in 1..Len(u) |-> Op(u[j], v[j])])
Vectors(d, S) == { Tup(f) : f \in [1..d -> S] }
RVals == {R(n) : n \in 0..MaxVal}
Const(d, n) == Tup([j \in 1..d |-> R(n)])
Ramp(d) == Tup([j \in 1..d |-> R(j - 1)])

Max(a, b) == IF a >= b THEN a ELSE b

(* Elementwise addition with broadcasting of an axis of length 1; two axes  *)
(* of different lengths, neither 1, do not broadcast and the add fails.     *)
Ok(v) == [ok |-> TRUE, v |-> v]
Failed == [ok |-> FALSE, v |-> <<>>]

BroadcastAdd(u, v) ==
    IF Len(u) = Len(v) THEN Ok(VMap2(RAdd, u, v))
    ELSE IF Len(u) = 1 THEN Ok(Tup([j \in 1..Len(v) |-> RAdd(u[1], v[j])]))
    ELSE IF Len(v) = 1 THEN Ok(Tup([j \in 1..Len(u) |-> RAdd(u[j], v[1])]))
    ELSE Failed

-----------------------------------------------------------------------------
(* FlowMatching: construction and build *)

NoConditions == <<>>
NotBuilt == [done |-> FALSE, units |-> 0, width |-> 0]

(* Velocity-field parameters: v_j = A*in[j] + B*in[units+1] + G*sum(rest) + C *)
(* a linear layer on the concatenated input, read in the layout of the      *)
(* build: state coordinates, then time, then conditions.                    *)
Fields ==
    { [A |-> 0, B |-> 0, C |-> 1, G |-> 0],
      [A |-> 1, B |-> 0, C |-> 0, G |-> 0],
      [A |-> 0, B |-> 1, C |-> 0, G |-> 1],
      [A |-> -1, B |-> 1, C |-> 1, G |-> 1] }

(* FlowMatching.build: output_projector.units = xz_shape[-1]; the subnet    *)
(* input is the state, one time column and the conditions if any.           *)
BuildShapes(xz_dim, cond_dim) ==
    [done |-> TRUE, units |-> xz_dim, width |-> xz_dim + 1 + cond_dim]

Build(xz_dim, cond_dim) ==
    /\ pc = "idle"
    /\ ~built.done
    /\ built' = BuildShapes(xz_dim, cond_dim)
    /\ UNCHANGED <<params, use_ot, seed, pc, frame, train, ret, eq_params, eq_ret>>

-----------------------------------------------------------------------------
(* Integrator family (bayesflow/networks/flow_matching/integrators, imported *)
(* at flow_matching.py:8-10; modelled from the design document, section 4.3) *)

Min(a, b) == IF a <= b THEN a ELSE b

(* velocity(subnet, projector, state, t, conditions): concatenate state,    *)
(* time and conditions, feed the subnet, project to `units` outputs.  A     *)
(* concatenation whose width is not the width the subnet was built for is   *)
(* rejected by the subnet's first layer.                                    *)
velocity(state, t, conditions) ==
    LET inp == state \o <<t>> \o conditions
        u == built.units
    IN IF Len(inp) # built.width THEN Failed
       ELSE Ok(Tup([j \in 1..u |->
                RAdd(RAdd(RMul(R(params.A), inp[j]),
                          RMul(R(params.B), inp[u + 1])),
                     RAdd(RMul(R(params.G), RSum(SubSeq(inp, u + 2, Len(inp)))),
                          R(params.C)))]))

(* Trace of the Jacobian of the velocity with respect to the state *)
Divergence(state) == R(params.A * Min(built.units, Len(state)))

Eval(xr, t, conditions) ==
    IF xr.ok THEN velocity(xr.v, t, conditions) ELSE Failed

Axpy(x, r, kr) ==
    IF kr.ok THEN BroadcastAdd(x, VScale(r, kr.v)) ELSE Failed

(* Euler: x + h * v(x, t) *)
EulerUpdate(x, t, h, c) == Axpy(x, h, velocity(x, t, c))

(* Variant of RK2Update: the final update uses the half step *)
RK2Update_half_step(x, t, h, c) ==
    LET k1 == velocity(x, t, c)
        k2 == Eval(Axpy(x, RMul(Half, h), k1), RAdd(t, RMul(Half, h)), c)
    IN Axpy(x, RMul(Half, h), k2)

(* RK2 (midpoint): k1 = v(x, t); k2 = v(x + h/2 k1, t + h/2); x + h * k2 *)
RK2Update(x, t, h, c) ==
    LET k1 == velocity(x, t, c)
        k2 == Eval(Axpy(x, RMul(Half, h), k1), RAdd(t, RMul(Half, h)), c)
    IN Axpy(x, h, k2)

(* RK4: classical four stages, x + h/6 (k1 + 2 k2 + 2 k3 + k4) *)
RK4Update(x, t, h, c) ==
    LET hh == RMul(Half, h)
        k1 == velocity(x, t, c)
        k2 == Eval(Axpy(x, hh, k1), RAdd(t, hh), c)
        k3 == Eval(Axpy(x, hh, k2), RAdd(t, hh), c)
        k4 == Eval(Axpy(x, h, k3), RAdd(t, h), c)
    IN IF k1.ok /\ k2.ok /\ k3.ok /\ k4.ok
       THEN Axpy(x, RMul(<<1, 6>>, h),
                 Ok(Tup([j \in 1..Len(k1.v) |->
                     RAdd(RAdd(k1.v[j], RMul(R(2), k2.v[j])),
                          RAdd(RMul(R(2), k3.v[j]), k4.v[j]))])))
       ELSE Failed

Update(scheme, x, t, h, c) ==
    CASE scheme = "euler" -> EulerUpdate(x, t, h, c)
      [] scheme = "rk2" -> RK2Update(x, t, h, c)
      [] scheme = "rk4" -> RK4Update(x, t, h, c)

(* Start of an integration: forward runs t from 0 with h = 1/steps, inverse *)
(* runs t from 1 with h = -1/steps; the trace accumulator starts at zero.   *)
IntegratorInit(scheme, x, conditions, steps, density, inverse) ==
    [ scheme |-> scheme, input |-> x, conditions |-> conditions,
      steps |-> steps, density |-> density, inverse |-> inverse,
      k |-> 0,
      t |-> IF inverse THEN One ELSE Zero,
      h |-> IF inverse THEN RNeg(RInv(steps)) ELSE RInv(steps),
      x |-> x, trace |-> Zero, ok |-> TRUE ]

(* One step of the loop: the state update, the time update and, in density  *)
(* mode, one signed contribution h * div v to the trace accumulator.        *)
IntegratorStep(f) ==
    LET nx == Update(f.scheme, f.x, f.t, f.h, f.conditions)
    IN IF ~nx.ok THEN [f EXCEPT !.ok = FALSE]
       ELSE [f EXCEPT !.x = nx.v,
                      !.t = RAdd(f.t, f.h),
                      !.k = f.k + 1,
                      !.trace = IF f.density
                                THEN RAdd(f.trace, RMul(f.h, Divergence(f.x)))
                                ELSE f.trace]

IntegratorDone(f) == f.k = f.steps

RECURSIVE Integrate(_)
Integrate(f) ==
    IF ~f.ok \/ IntegratorDone(f) THEN f ELSE Integrate(IntegratorStep(f))

(* base_distribution.log_prob(z) of the standard normal base distribution  *)
(* (an external interface): sum over coordinates of -z^2/2 - K, with the    *)
(* constant K = log(2 pi)/2 taken as 11/12                                  *)
LogNormConst == <<11, 12>>
log_prob(z) ==
    RSum(Tup([j \in 1..Len(z) |-> RNeg(RAdd(RMul(Half, RMul(z[j], z[j])), LogNormConst))]))

-----------------------------------------------------------------------------
(* FlowMatching.call, _forward, _inverse *)

(* **kwargs of call: the options `steps` and `density`, each given or not;  *)
(* the calls of the model give density=True or leave it at its default.     *)
Kwargs ==
    { [steps_given |-> sg, steps |-> st, density_given |-> dg, density |-> d] :
        sg \in BOOLEAN, st \in 0..MaxSteps, dg \in BOOLEAN, d \in BOOLEAN }

KwargsGiven ==
    { kw \in Kwargs : /\ (kw.steps_given <=> kw.steps >= 1)
                      /\ (kw.density_given <=> kw.density) }

(* Variant of steps_of: the default is not applied *)
steps_of_no_default(kwargs) == IF kwargs.steps_given THEN kwargs.steps ELSE 1

(* steps = kwargs.get("steps", 100) *)
steps_of(kwargs) == IF kwargs.steps_given THEN kwargs.steps ELSE DefaultSteps

(* density: bool = False *)
density_of(kwargs) == IF kwargs.density_given THEN kwargs.density ELSE FALSE

NoReturn == [kind |-> "none", sample |-> <<>>, log_density |-> Zero, metrics |-> <<>>]
Raised == [kind |-> "raised", sample |-> <<>>, log_density |-> Zero, metrics |-> <<>>]
Sample(x) == [kind |-> "sample", sample |-> x, log_density |-> Zero, metrics |-> <<>>]
Pair(x, ld) == [kind |-> "pair", sample |-> x, log_density |-> ld, metrics |-> <<>>]

(* Variant of forward_start: an `integrator` keyword selects the scheme *)
forward_start_by_keyword(x, conditions, kwargs) ==
    IntegratorInit(IF "integrator" \in DOMAIN kwargs THEN kwargs.integrator ELSE "rk2",
                   x, conditions, steps_of(kwargs), density_of(kwargs), FALSE)

(* _forward: integrator = RK2Integrator(); integrator(subnet, projector, x, *)
(* conditions=conditions, steps=steps, density=density)                     *)
forward_start(x, conditions, kwargs) ==
    IntegratorInit("rk2", x, conditions, steps_of(kwargs), density_of(kwargs), FALSE)

(* Variant of inverse_start: inverse=True is not passed on *)
inverse_start_forgets_flag(z, conditions, kwargs) ==
    IntegratorInit("rk2", z, conditions, steps_of(kwargs), density_of(kwargs), FALSE)

(* _inverse: the same with inverse=True *)
inverse_start(z, conditions, kwargs) ==
    IntegratorInit("rk2", z, conditions, steps_of(kwargs), density_of(kwargs), TRUE)

(* Variant of forward_return: log_prob is taken at the argument x *)
forward_return_at_input(f) ==
    IF f.density THEN Pair(f.x, RAdd(log_prob(f.input), f.trace)) ELSE Sample(f.x)

(* Variant of inverse_return: the trace is added *)
inverse_return_adds(f) ==
    IF f.density THEN Pair(f.x, RAdd(log_prob(f.input), f.trace)) ELSE Sample(f.x)

(* _forward after the integrator: z, log_prob(z) + trace *)
forward_return(f) ==
    IF f.density THEN Pair(f.x, RAdd(log_prob(f.x), f.trace)) ELSE Sample(f.x)

(* _inverse after the integrator: x, log_prob(z) - trace, z the argument *)
inverse_return(f) ==
    IF f.density THEN Pair(f.x, RSub(log_prob(f.input), f.trace)) ELSE Sample(f.x)

(* Variant of call_target: the branches are exchanged *)
call_target_exchanged(inverse) == IF inverse THEN "_forward" ELSE "_inverse"

(* call: if inverse: return self._inverse(...); return self._forward(...) *)
call_target(inverse) == IF inverse THEN "_inverse" ELSE "_forward"

return_of(fn, f) ==
    IF fn = "_inverse" THEN inverse_return(f) ELSE forward_return(f)

(* The methods as functions of their arguments *)
_forward(x, conditions, kwargs) ==
    LET f == Integrate(forward_start(x, conditions, kwargs))
    IN IF f.ok THEN forward_return(f) ELSE Raised

_inverse(z, conditions, kwargs) ==
    LET f == Integrate(inverse_start(z, conditions, kwargs))
    IN IF f.ok THEN inverse_return(f) ELSE Raised

call(xz, conditions, inverse, kwargs) ==
    IF call_target(inverse) = "_inverse"
    THEN _inverse(xz, conditions, kwargs)
    ELSE _forward(xz, conditions, kwargs)

NoCall == [xz |-> <<>>, conditions |-> NoConditions, inverse |-> FALSE,
           kwargs |-> [steps_given |-> FALSE, steps |-> 0,
                       density_given |-> FALSE, density |-> FALSE]]
NoFrame == [fn |-> "none", call |-> NoCall,
            run |-> IntegratorInit("rk2", <<>>, NoConditions, 1, FALSE, FALSE)]
NoTrain == [made |-> FALSE]

(* Inputs of a call: the constant states and the ramp 0, 1, ... of every    *)
(* dimension                                                                *)
States ==
    UNION { {Const(d, n) : n \in 0..MaxVal} \cup {Ramp(d)} : d \in 1..MaxDim }
Conditions == { NoConditions, <<One>> }

(* The default of 100 steps is run for the fields without state dependence *)
(* on a state of the built width, whose iterates keep small denominators.   *)
Representable(xz, kwargs) ==
    kwargs.steps_given \/ (params.A = 0 /\ Len(xz) = built.units)

Call(xz, conditions, inverse, kwargs) ==
    /\ pc = "idle"
    /\ built.done
    /\ Representable(xz, kwargs)
    /\ LET fn == call_target(inverse)
       IN frame' = [fn |-> fn,
                    call |-> [xz |-> xz, conditions |-> conditions,
                              inverse |-> inverse, kwargs |-> kwargs],
                    run |-> IF fn = "_inverse"
                            THEN inverse_start(xz, conditions, kwargs)
                            ELSE forward_start(xz, conditions, kwargs)]
    /\ pc' = "integrating"
    /\ ret' = NoReturn
    /\ train' = NoTrain
    /\ UNCHANGED <<params, use_ot, built, seed, eq_params, eq_ret>>

(* One iteration of the integrator's loop; an error of the velocity         *)
(* evaluation leaves the call and reaches the caller.                       *)
Step ==
    /\ pc = "integrating"
    /\ ~IntegratorDone(frame.run)
    /\ \E f \in {IntegratorStep(frame.run)} :
          /\ frame' = [frame EXCEPT !.run = f]
          /\ pc' = IF f.ok THEN "integrating" ELSE "idle"
          /\ ret' = IF f.ok THEN ret ELSE Raised
    /\ UNCHANGED <<params, use_ot, built, seed, train, eq_params, eq_ret>>

Return ==
    /\ pc = "integrating"
    /\ IntegratorDone(frame.run)
    /\ ret' = return_of(frame.fn, frame.run)
    /\ pc' = "idle"
    /\ UNCHANGED <<params, use_ot, built, seed, frame, train, eq_params, eq_ret>>

-----------------------------------------------------------------------------
(* FlowMatching.compute_metrics *)

(* Batches of two rows: the data x1, the normal draw x0, the uniform draw t *)
DataBatches(d) ==
    { <<Const(d, 0), Const(d, 1)>>, <<Const(d, 1), Ramp(d)>>, <<Const(d, 1), Const(d, 1)>> }
NoiseBatches(d) ==
    { <<Const(d, 0), Const(d, 0)>>, <<Const(d, 0), Const(d, 1)>> }
TimeDraws == { <<Zero, One>>, <<Half, Half>>, <<One, Half>> }
ConditionBatches == { NoConditions, <<<<One>>, <<One>>>> }

(* Metrics of the base class InferenceNetwork.compute_metrics: some mapping *)
EmptyDict == [k \in {} |-> Zero]
BaseMetrics ==
    { EmptyDict,
      [k \in {"loss", "kl"} |-> IF k = "loss" THEN R(7) ELSE R(3)] }

(* a | b on dicts: the right operand wins *)
DictMerge(a, b) ==
    [k \in (DOMAIN a) \cup (DOMAIN b) |-> IF k \in DOMAIN b THEN b[k] ELSE a[k]]

(* x = t * x1 + (1 - t) * x0, row by row (t expanded to the right) *)
interpolate(t, x1, x0) ==
    Tup([b \in 1..Len(x1) |->
        Tup([j \in 1..Len(x1[b]) |->
            RAdd(RMul(t[b], x1[b][j]), RMul(RSub(One, t[b]), x0[b][j]))])])

(* target_velocity = x1 - x0 *)
target_of(x1, x0) ==
    Tup([b \in 1..Len(x1) |-> VMap2(RSub, x1[b], x0[b])])

RowConditions(conditions, b) ==
    IF conditions = NoConditions THEN NoConditions ELSE conditions[b]

(* integrator.velocity(subnet, projector, x, t, conditions) on a batch *)
predicted_of(x, t, conditions) ==
    Tup([b \in 1..Len(x) |-> velocity(x[b], t[b], RowConditions(conditions, b))])

mean(v) == RMul(RInv(Len(v)), RSum(v))

(* keras.losses.mean_squared_error: mean over the last axis of the squares *)
mean_squared_error(y_true, y_pred) ==
    Tup([b \in 1..Len(y_true) |->
        mean(Tup([j \in 1..Len(y_true[b]) |->
                RMul(RSub(y_true[b][j], y_pred[b][j]),
                     RSub(y_true[b][j], y_pred[b][j]))]))])

(* loss = mean_squared_error(target, predicted); loss = mean(loss) *)
loss_of(target_velocity, predicted_velocity) ==
    mean(mean_squared_error(target_velocity, predicted_velocity))

(* Variant of metrics_of: the operands of the merge are exchanged *)
metrics_of_exchanged(base_metrics, loss) ==
    DictMerge([k \in {"loss"} |-> loss], base_metrics)

(* return base_metrics | {"loss": loss} *)
metrics_of(base_metrics, loss) ==
    DictMerge(base_metrics, [k \in {"loss"} |-> loss])

(* optimal_transport(x1, x0, conditions, seed, ...): a re-pairing of the    *)
(* rows of x0 with the rows of x1 (from the design document)                *)
Pairings(n) == { p \in [1..n -> 1..n] : \A i, j \in 1..n : p[i] = p[j] => i = j }
optimal_transport(x0, p) == Tup([b \in 1..Len(x0) |-> x0[p[b]]])

(* The tail of compute_metrics, common to both branches: base metrics,     *)
(* integrator = RK2Integrator(), predicted velocity, loss, merged mapping.  *)
(* The result holds the locals of the call (train) and what the caller      *)
(* receives (ret).                                                          *)
compute_metrics_tail(pre, draws, x0, x1, t, x, target_velocity, conditions, base_metrics) ==
    LET pred == predicted_of(x, t, conditions)
        good == \A b \in 1..Len(pred) : pred[b].ok
        pv == Tup([b \in 1..Len(pred) |-> pred[b].v])
    IN [train |-> [made |-> TRUE, preconfigured |-> pre, draws |-> draws,
                   integrator |-> "rk2",
                   x0 |-> x0, x1 |-> x1, t |-> t, x |-> x,
                   target_velocity |-> target_velocity,
                   predicted_velocity |-> pv, ok |-> good,
                   conditions |-> conditions, base_metrics |-> base_metrics],
        ret |-> IF good
                THEN [kind |-> "metrics", sample |-> <<>>, log_density |-> Zero,
                      metrics |-> metrics_of(base_metrics, loss_of(target_velocity, pv))]
                ELSE Raised]

(* x is a tensor: x1 = x, draw x0, couple if enabled, draw t, interpolate.  *)
(* drawn, p and t are the outcomes of the three uses of the seed generator. *)
compute_metrics(x1, conditions, base_metrics, drawn, p, t) ==
    LET x0 == IF use_ot THEN optimal_transport(drawn, p) ELSE drawn
    IN compute_metrics_tail(FALSE,
                            IF use_ot THEN <<"x0", "ot", "t">> ELSE <<"x0", "t">>,
                            x0, x1, t, interpolate(t, x1, x0), target_of(x1, x0),
                            conditions, base_metrics)

(* x is a sequence: x0, x1, t, x, target_velocity = x *)
compute_metrics_preconfigured(x, conditions, base_metrics) ==
    compute_metrics_tail(TRUE, <<>>, x[1], x[2], x[3], x[4], x[5],
                         conditions, base_metrics)

(* Variant of draws_of: the coupling takes nothing from the seed generator *)
draws_of_without_coupling(ot) == 2

(* uses of self.seed_generator in one call: x0, the coupling if enabled, t *)
draws_of(ot) == IF ot THEN 3 ELSE 2

ComputeMetrics(x1, conditions, base_metrics) ==
    /\ pc = "idle"
    /\ built.done
    /\ Len(x1[1]) = built.units
    /\ seed + draws_of(use_ot) <= MaxDraws
    /\ seed' = seed + draws_of(use_ot)
    /\ \E drawn \in NoiseBatches(built.units), p \in Pairings(Len(x1)), t \in TimeDraws :
          /\ (~use_ot => \A b \in 1..Len(x1) : p[b] = b)
          /\ \E r \in {compute_metrics(x1, conditions, base_metrics, drawn, p, t)} :
                train' = r.train /\ ret' = r.ret
    /\ frame' = NoFrame
    /\ UNCHANGED <<params, use_ot, built, pc, eq_params, eq_ret>>

PreConfigured(d) ==
    { <<x0, x1, t, interpolate(t, x1, x0), target_of(x1, x0)>> :
        x0 \in NoiseBatches(d), x1 \in {<<Const(d, 1), Ramp(d)>>}, t \in {<<Half, Half>>} }
    \cup { << <<Const(d, 0), Const(d, 0)>>, <<Const(d, 1), Const(d, 1)>>, <<Zero, One>>,
              <<Const(d, 1), Const(d, 0)>>, <<Const(d, 0), Const(d, 1)>> >> }

ComputeMetricsPreConfigured(x, conditions, base_metrics) ==
    /\ pc = "idle"
    /\ built.done
    /\ Len(x[2][1]) = built.units
    /\ \E r \in {compute_metrics_preconfigured(x, conditions, base_metrics)} :
          train' = r.train /\ ret' = r.ret
    /\ frame' = NoFrame
    /\ UNCHANGED <<params, use_ot, built, seed, pc, eq_params, eq_ret>>

-----------------------------------------------------------------------------
(* EquivariantModule (deep_set/equivariant_module.py)                       *)
(* A tensor (batch, set_size, dim) is a tuple of sets, a set a tuple of     *)
(* elements, an element a tuple of rationals.                               *)

Dot(w, v) == RSum(Tup([i \in 1..Len(v) |-> RMul(R(w[i]), v[i])]))

(* The activation (gelu by default) is taken piecewise linear: max(v, 0) *)
activation(v) == IF RLt(v, Zero) THEN Zero ELSE v
linear(v) == v

(* keras.layers.Dense on the last axis: act(W v + b) *)
Dense(layer, act(_), v) ==
    Tup([k \in 1..Len(layer.W) |-> act(RAdd(Dot(layer.W[k], v), R(layer.b[k])))])

RECURSIVE Sequential(_, _)
Sequential(layers, v) ==
    IF layers = <<>> THEN v
    ELSE Sequential(Tail(layers), Dense(Head(layers), activation, v))

(* Weights and options of a module: input_projection, equivariant_fc, the   *)
(* nested invariant module (inner, pooling, outer) and layer_norm           *)
EqConfigs ==
    { [ input_projection |-> [W |-> << <<1>>, <<2>> >>, b |-> <<0, 1>>],
        equivariant_fc |-> << [W |-> << <<1, 0, 1>>, <<0, 1, -1>> >>, b |-> <<0, 0>>],
                              [W |-> << <<1, 1>>, <<1, -1>> >>, b |-> <<1, 0>>] >>,
        inner |-> [W |-> << <<1, 1>> >>, b |-> <<1>>],
        outer |-> [W |-> << <<2>> >>, b |-> <<1>>],
        pooling |-> pool, layer_norm |-> ln ] :
      pool \in {"mean", "max"}, ln \in BOOLEAN }
    \cup
    { [ input_projection |-> [W |-> << <<1>>, <<-1>> >>, b |-> <<1, 0>>],
        equivariant_fc |-> << [W |-> << <<1, 1, 1>>, <<1, 0, -1>> >>, b |-> <<0, 1>>] >>,
        inner |-> [W |-> << <<2, 1>> >>, b |-> <<0>>],
        outer |-> [W |-> << <<1>> >>, b |-> <<0>>],
        pooling |-> pool, layer_norm |-> ln ] :
      pool \in {"mean", "max"}, ln \in BOOLEAN }

(* InvariantModule (invariant_module.py, imported at line 8; from the       *)
(* design document, section 4.1): inner transform of every element, pooling *)
(* across the set axis, outer transform of the pooled vector                *)
RECURSIVE RMax(_)
RMax(s) ==
    IF Len(s) = 1 THEN s[1]
    ELSE LET m == RMax(Tail(s)) IN IF RLt(Head(s), m) THEN m ELSE Head(s)

pool_over_set(pooling, set) ==
    Tup([k \in 1..Len(set[1]) |->
        LET column == Tup([i \in 1..Len(set) |-> set[i][k]])
        IN IF pooling = "mean" THEN mean(column) ELSE RMax(column)])

invariant_module(set) ==
    LET inner == Tup([i \in 1..Len(set) |-> Dense(eq_params.inner, activation, set[i])])
    IN Dense(eq_params.outer, activation, pool_over_set(eq_params.pooling, inner))

(* Variant of tile: the repetition is put on another axis, so that only the *)
(* first set position carries the summary                                   *)
tile_wrong_axis(summary, set_size) ==
    Tup([i \in 1..set_size |->
        IF i = 1 THEN summary ELSE Tup([k \in 1..Len(summary) |-> Zero])])

(* ops.expand_dims(summary, axis=-2); ops.tile(summary, tiler) with         *)
(* tiler[-2] = shape[-2]: one copy of the summary per set position          *)
tile(summary, set_size) == Tup([i \in 1..set_size |-> summary])

(* ops.concatenate([input_set, invariant_summary], axis=-1) *)
concatenate(set, tiled) == Tup([i \in 1..Len(set) |-> set[i] \o tiled[i]])

(* LayerNormalization over the last axis, as the centring x - mean(x); the  *)
(* division by the standard deviation of the same element is left out       *)
layer_normalization(v) == Tup([k \in 1..Len(v) |-> RSub(v[k], mean(v))])

(* input_set = self.input_projection(input_set) *)
input_projection(raw_set) ==
    Tup([i \in 1..Len(raw_set) |-> Dense(eq_params.input_projection, linear, raw_set[i])])

(* EquivariantModule.call on one set of the batch *)
call_on_set(raw_set) ==
    LET input_set == input_projection(raw_set)
        invariant_summary == tile(invariant_module(input_set), Len(input_set))
        output_set == concatenate(input_set, invariant_summary)
        residual == Tup([i \in 1..Len(input_set) |->
                        VMap2(RAdd, input_set[i],
                              Sequential(eq_params.equivariant_fc, output_set[i]))])
    IN IF eq_params.layer_norm
       THEN Tup([i \in 1..Len(residual) |-> layer_normalization(residual[i])])
       ELSE residual

EquivariantModule_call(input) == Tup([b \in 1..Len(input) |-> call_on_set(input[b])])

(* Input tensors: the sets of 1..MaxSet elements of one feature in          *)
(* ascending order, alone or in a batch with their reversal                 *)
Reverse(s) == Tup([i \in 1..Len(s) |-> s[Len(s) + 1 - i]])
Ascending(s) == \A i \in 1..(Len(s) - 1) : RLeq(s[i][1], s[i + 1][1])
Sets ==
    UNION { {s \in Vectors(n, {<<r>> : r \in RVals}) : Ascending(s)} : n \in 1..MaxSet }
SetBatches == { <<S>> : S \in Sets } \cup { <<S, Reverse(S)>> : S \in Sets }

NoEq == [made |-> FALSE, input |-> <<>>, output |-> <<>>]

EquivariantCall(input) ==
    /\ eq_ret' = [made |-> TRUE, input |-> input, output |-> EquivariantModule_call(input)]
    /\ UNCHANGED <<eq_params, params, use_ot, built, seed, pc, frame, train, ret>>

(* The flow-matching network stays as constructed while sets are encoded *)
FlowIdle ==
    /\ params = [A |-> 0, B |-> 0, C |-> 1, G |-> 0]
    /\ use_ot = FALSE
    /\ built = NotBuilt
    /\ seed = 0
    /\ pc = "idle"
    /\ frame = NoFrame
    /\ train = NoTrain
    /\ ret = NoReturn

InitEquivariant ==
    /\ eq_params \in EqConfigs
    /\ eq_ret = NoEq
    /\ FlowIdle

NextEquivariant == \E input \in SetBatches : EquivariantCall(input)

SpecEquivariant == InitEquivariant /\ [][NextEquivariant]_vars

(* The set encoder stays as constructed while the flow network is used *)
EqInit ==
    /\ eq_params = CHOOSE c \in EqConfigs :
                        c.pooling = "mean" /\ c.layer_norm /\ Len(c.equivariant_fc) = 2
    /\ eq_ret = NoEq

(* FlowMatching(): use_optimal_transport defaults to False *)
Init ==
    /\ params \in Fields
    /\ use_ot = FALSE
    /\ built = NotBuilt
    /\ seed = 0
    /\ pc = "idle"
    /\ frame = NoFrame
    /\ train = NoTrain
    /\ ret = NoReturn
    /\ EqInit

Next ==
    \/ \E d \in 1..MaxDim, c \in {0, 1} : Build(d, c)
    \/ \E xz \in States, c \in Conditions, inv \in BOOLEAN, kw \in KwargsGiven :
          Call(xz, c, inv, kw)
    \/ Step
    \/ Return

Spec == Init /\ [][Next]_vars

(* Training: the network is constructed with either coupling option and     *)
(* compute_metrics is called on batches.                                    *)
InitTrain ==
    /\ params \in Fields
    /\ use_ot \in BOOLEAN
    /\ built = NotBuilt
    /\ seed = 0
    /\ pc = "idle"
    /\ frame = NoFrame
    /\ train = NoTrain
    /\ ret = NoReturn
    /\ EqInit

NextTrain ==
    \/ \E d \in 1..MaxDim, c \in {0, 1} : Build(d, c)
    \/ \E d \in 1..MaxDim : \E x1 \in DataBatches(d), c \in ConditionBatches,
                               bm \in BaseMetrics :
          ComputeMetrics(x1, c, bm)
    \/ \E d \in 1..MaxDim : \E x \in PreConfigured(d), c \in ConditionBatches,
                               bm \in BaseMetrics :
          ComputeMetricsPreConfigured(x, c, bm)

SpecTrain == InitTrain /\ [][NextTrain]_vars

(* A session on one network: construction with any options, build, calls   *)
(* with and without an `integrator` keyword, and compute_metrics on tensors *)
(* and on pre-configured sequences, in any order.                           *)

(* The schemes of the three imported integrator classes *)
IntegratorNames == {"euler", "rk2", "rk4"}

(* **kwargs of a call that names an integrator: _forward and _inverse take  *)
(* the keyword into their **kwargs and read only "steps" from it.           *)
SessionKwargs ==
    LET given == { kw \in KwargsGiven : kw.steps_given /\ kw.steps \in {1, MaxSteps} }
    IN given \cup { kw @@ [k \in {"integrator"} |-> i] :
                       kw \in given, i \in IntegratorNames \ {"rk2"} }

(* The fields whose velocity depends on the state: the three schemes give   *)
(* three different results on them.                                         *)
SessionFields == { f \in Fields : f.A # 0 }

(* FlowMatching(use_optimal_transport=ot, integrator=...): the constructor  *)
(* has no integrator parameter (it is commented out), an `integrator`       *)
(* option lands in **kwargs and no attribute of the network keeps it.       *)
Construct(integrator, ot) ==
    /\ params \in SessionFields
    /\ use_ot = ot
    /\ built = NotBuilt
    /\ seed = 0
    /\ pc = "idle"
    /\ frame = NoFrame
    /\ train = NoTrain
    /\ ret = NoReturn

InitSession ==
    /\ \E integrator \in IntegratorNames \cup {"none"}, ot \in BOOLEAN :
          Construct(integrator, ot)
    /\ EqInit

(* Calls are made on states of the built dimension, with conditions exactly *)
(* when the network was built with conditions.                              *)
SessionConditionBatches ==
    { c \in ConditionBatches :
        (c = NoConditions) <=> (built.width = built.units + 1) }

NextSession ==
    \/ \E d \in 1..MaxDim, c \in {0, 1} : Build(d, c)
    \/ \E xz \in { s \in States : Len(s) = built.units },
          c \in { k \in Conditions : Len(k) + built.units + 1 = built.width },
          inv \in BOOLEAN, kw \in SessionKwargs :
          Call(xz, c, inv, kw)
    \/ Step
    \/ Return
    \/ \E x1 \in DataBatches(built.units), c \in SessionConditionBatches :
          ComputeMetrics(x1, c, EmptyDict)
    \/ \E x \in PreConfigured(built.units), c \in SessionConditionBatches :
          ComputeMetricsPreConfigured(x, c, EmptyDict)

SpecSession == InitSession /\ [][NextSession]_vars

-----------------------------------------------------------------------------
(* Properties *)

PermuteSet(set, p) == Tup([i \in 1..Len(set) |-> set[p[i]]])
PermuteBatch(x, p) == Tup([b \in 1..Len(x) |-> PermuteSet(x[b], p)])

SummaryUnchanged(input, p) ==
    \A b \in 1..Len(input) :
        invariant_module(input_projection(PermuteSet(input[b], p)))
            = invariant_module(input_projection(input[b]))

(* C1: EquivariantModule.call is permutation-equivariant.  For the input of *)
(* the last call and every permutation p of its set axis that leaves the    *)
(* nested invariant summary unchanged, the call on the permuted input       *)
(* returns the permuted output; the output has the batch length and the     *)
(* set size of the input.                                                   *)
C1_PermutationEquivariance ==
    eq_ret.made =>
        /\ Len(eq_ret.output) = Len(eq_ret.input)
        /\ \A b \in 1..Len(eq_ret.input) :
               Len(eq_ret.output[b]) = Len(eq_ret.input[b])
        /\ \A p \in Pairings(Len(eq_ret.input[1])) :
               SummaryUnchanged(eq_ret.input, p) =>
                   EquivariantModule_call(PermuteBatch(eq_ret.input, p))
                       = PermuteBatch(eq_ret.output, p)

(* A call on a batch of two sets of three elements whose output is moved by *)
(* some permutation of the set axis                                         *)
C1_Witness ==
    /\ eq_ret.made
    /\ Len(eq_ret.input) = 2
    /\ Len(eq_ret.input[1]) = 3
    /\ \E p \in Pairings(3) :
          /\ SummaryUnchanged(eq_ret.input, p)
          /\ PermuteBatch(eq_ret.output, p) # eq_ret.output

-----------------------------------------------------------------------------
(* Properties of FlowMatching.call *)

Called == frame.fn # "none"
Returned == pc = "idle" /\ Called /\ ret.kind \in {"sample", "pair"}
WellShaped ==
    /\ Len(frame.call.xz) = built.units
    /\ Len(frame.call.xz) + 1 + Len(frame.call.conditions) = built.width

StepsAsked ==
    IF frame.call.kwargs.steps_given THEN frame.call.kwargs.steps ELSE 100
DensityAsked ==
    frame.call.kwargs.density_given /\ frame.call.kwargs.density

(* C5: call runs _inverse when inverse is True and _forward otherwise, and  *)
(* exactly that one; conditions, steps and density reach the integration    *)
(* unchanged (steps 100 and density False when not given); the result is a  *)
(* single sample without density and the pair (sample, log_density) with    *)
(* it, and it is the value of the method that was chosen.                   *)
C5_CallDispatch ==
    Called =>
        /\ frame.call.inverse => frame.fn = "_inverse" /\ frame.run.inverse
        /\ ~frame.call.inverse => frame.fn = "_forward" /\ ~frame.run.inverse
        /\ frame.run.conditions = frame.call.conditions
        /\ frame.run.input = frame.call.xz
        /\ frame.run.steps = StepsAsked
        /\ frame.run.density = DensityAsked
        /\ Returned =>
              /\ ret.kind = (IF DensityAsked THEN "pair" ELSE "sample")
              /\ ret = IF frame.call.inverse
                       THEN _inverse(frame.call.xz, frame.call.conditions, frame.call.kwargs)
                       ELSE _forward(frame.call.xz, frame.call.conditions, frame.call.kwargs)

(* An inverse call with conditions and density that returned a pair whose   *)
(* sample differs from the result of the forward method on the same input   *)
C5_Witness ==
    /\ Returned
    /\ frame.call.inverse
    /\ frame.call.conditions # NoConditions
    /\ ret.kind = "pair"
    /\ ret.sample # _forward(frame.call.xz, frame.call.conditions, frame.call.kwargs).sample

(* C6: with density requested, _forward returns log_prob(z) + trace with z  *)
(* the result of the integration, and _inverse returns log_prob(z) - trace  *)
(* with z the argument of the call; trace is the accumulator of that call   *)
(* after its last step.                                                     *)
C6_LogDensityFormula ==
    (Returned /\ frame.run.density) =>
        /\ ret.kind = "pair"
        /\ ret.sample = frame.run.x
        /\ frame.run.k = frame.run.steps
        /\ frame.fn = "_forward" =>
              ret.log_density = RAdd(log_prob(ret.sample), frame.run.trace)
        /\ frame.fn = "_inverse" =>
              ret.log_density = RSub(log_prob(frame.call.xz), frame.run.trace)

(* A forward call with density whose trace is not zero and whose result     *)
(* has another base log-probability than its argument                       *)
C6_Witness ==
    /\ Returned
    /\ frame.fn = "_forward"
    /\ frame.run.density
    /\ frame.run.trace # Zero
    /\ log_prob(ret.sample) # log_prob(frame.call.xz)

(* C9: an integration call ends after exactly `steps` steps (100 when not   *)
(* given) of size 1/steps: forward from t = 0 to t = 1, inverse from t = 1  *)
(* to t = 0, never returning earlier; after k steps the time is             *)
(* start + k h and the trace accumulator holds k contributions h * div v    *)
(* (h > 0 forward, h < 0 inverse) on top of zero, or zero without density.  *)
C9_FixedStepCount ==
    Called =>
        LET f == frame.run
        IN /\ f.steps = StepsAsked
           /\ f.k \in 0..f.steps
           /\ f.h = (IF frame.fn = "_inverse" THEN RNeg(RInv(f.steps)) ELSE RInv(f.steps))
           /\ f.t = RAdd(IF frame.fn = "_inverse" THEN One ELSE Zero, RMul(R(f.k), f.h))
           /\ f.trace = (IF f.density
                         THEN RMul(R(f.k), RMul(f.h, Divergence(f.x)))
                         ELSE Zero)
           /\ Returned =>
                 /\ f.k = f.steps
                 /\ f.t = (IF frame.fn = "_inverse" THEN Zero ELSE One)

(* An inverse call with density that returned after MaxSteps steps with a   *)
(* trace that is not zero                                                   *)
C9_Witness ==
    /\ Returned
    /\ frame.fn = "_inverse"
    /\ frame.run.k = MaxSteps
    /\ frame.run.density
    /\ frame.run.trace # Zero

(* Forward call followed by the inverse call on its result *)
StepsKw(n, density) ==
    [steps_given |-> TRUE, steps |-> n, density_given |-> density, density |-> density]

InverseOfResult ==
    _inverse(ret.sample, frame.call.conditions, frame.call.kwargs)

(* Discretization tolerance of a run of n steps: the step size 1/n *)
Tolerance(n) == RInv(n)

(* C2 as stated: the log-density of a forward call and the log-density of   *)
(* the inverse call on its result, same conditions and steps, are opposite  *)
(* within the discretization tolerance.                                     *)
C2_OppositeLogDensities ==
    (Returned /\ frame.fn = "_forward" /\ ret.kind = "pair") =>
        /\ InverseOfResult.kind = "pair"
        /\ RLeq(RAbs(RAdd(ret.log_density, InverseOfResult.log_density)),
                Tolerance(frame.run.steps))

(* C2, amended: the two log-densities are equal within the discretization   *)
(* tolerance.                                                               *)
C2_EqualLogDensities ==
    (Returned /\ frame.fn = "_forward" /\ ret.kind = "pair") =>
        /\ InverseOfResult.kind = "pair"
        /\ RLeq(RAbs(RSub(ret.log_density, InverseOfResult.log_density)),
                Tolerance(frame.run.steps))

(* A forward call with density whose trace and log-density are not zero *)
C2_Witness ==
    /\ Returned
    /\ frame.fn = "_forward"
    /\ ret.kind = "pair"
    /\ frame.run.trace # Zero
    /\ ret.log_density # Zero
    /\ InverseOfResult.kind = "pair"

(* Largest coordinate of |y - x| *)
Distance(y, x) == RMax(Tup([j \in 1..Len(x) |-> RAbs(RSub(y[j], x[j]))]))

(* The distance of _inverse(_forward(x)) from x with n steps each way *)
RoundTripError(x, conditions, n) ==
    LET z == _forward(x, conditions, StepsKw(n, FALSE))
        back == _inverse(z.sample, conditions, StepsKw(n, FALSE))
    IN Distance(back.sample, x)

ConstantField == params.A = 0 /\ params.B = 0

(* C3: the inverse call on the result of a forward call, same conditions    *)
(* and steps, returns the argument of the forward call up to an error that  *)
(* does not grow when the number of steps grows, and exactly for a          *)
(* velocity field that is constant in state and time.                       *)
C3_RoundTrip ==
    (Returned /\ frame.fn = "_forward") =>
        LET x == frame.call.xz
            c == frame.call.conditions
        IN /\ InverseOfResult.kind = ret.kind
           /\ Len(InverseOfResult.sample) = Len(x)
           /\ \A n \in 1..(MaxSteps - 1) :
                 RLeq(RoundTripError(x, c, n + 1), RoundTripError(x, c, n))
           /\ \A n \in 1..MaxSteps :
                 n <= frame.run.steps =>
                    RLeq(Distance(InverseOfResult.sample, x), RoundTripError(x, c, n))
           /\ ConstantField => InverseOfResult.sample = x

(* A forward call on a state-dependent field whose round trip has an error  *)
(* that is not zero and shrinks from one step to MaxSteps steps             *)
C3_Witness ==
    /\ Returned
    /\ frame.fn = "_forward"
    /\ params.A # 0
    /\ frame.run.steps = MaxSteps
    /\ InverseOfResult.sample # frame.call.xz
    /\ RLt(RoundTripError(frame.call.xz, frame.call.conditions, MaxSteps),
           RoundTripError(frame.call.xz, frame.call.conditions, 1))

Schemes == {"euler", "rk2", "rk4"}

(* The constant the field adds on every coordinate over unit time *)
FieldConstant(conditions) ==
    RAdd(R(params.C), RMul(R(params.G), RSum(conditions)))

(* C4: on a velocity field constant in state and time, Euler, RK2 and RK4   *)
(* with any number n >= 1 of steps of size 1/n from t = 0 end at t = 1 in   *)
(* the state x + c, and so does the forward call itself.                    *)
C4_IntegratorConsistency ==
    (Returned /\ frame.fn = "_forward" /\ ConstantField /\ WellShaped) =>
        LET x == frame.call.xz
            target == Tup([j \in 1..Len(x) |->
                            RAdd(x[j], FieldConstant(frame.call.conditions))])
        IN /\ ret.sample = target
           /\ \A scheme \in Schemes, n \in 1..MaxSteps :
                 LET f == Integrate(IntegratorInit(scheme, x, frame.call.conditions,
                                                   n, FALSE, FALSE))
                 IN f.ok /\ f.k = n /\ f.t = One /\ f.x = target

(* A forward call of two coordinates on the constant field that moved *)
C4_Witness ==
    /\ Returned
    /\ frame.fn = "_forward"
    /\ ConstantField
    /\ WellShaped
    /\ Len(frame.call.xz) = 2
    /\ ret.sample # frame.call.xz

BuiltWithoutConditions == built.width = built.units + 1

(* C8: a call with conditions on a network built without conditions, and a  *)
(* call whose xz has another last dimension than the built one, raise and   *)
(* return no sample.                                                        *)
C8_MismatchRaises ==
    Returned =>
        /\ ~(frame.call.conditions # NoConditions /\ BuiltWithoutConditions)
        /\ Len(frame.call.xz) = built.units

(* C10: a call starts its argument at the time at which the training path   *)
(* x_t = t x1 + (1 - t) x0 is at that kind of state: the forward call,      *)
(* whose argument is data, where the path is at x1, the inverse call, whose *)
(* argument is a base sample, where the path is at x0.                      *)
C10_TimeConvention ==
    (Called /\ frame.run.k = 0) =>
        LET d == Len(frame.call.xz)
            x1 == <<Const(d, 1)>>
            x0 == <<Const(d, 0)>>
            at_start == interpolate(<<frame.run.t>>, x1, x0)
        IN /\ frame.fn = "_forward" => at_start = x1
           /\ frame.fn = "_inverse" => at_start = x0

-----------------------------------------------------------------------------
(* Properties of FlowMatching.compute_metrics *)

SquaredErrors(tv, pv) ==
    Tup([b \in 1..Len(tv) |->
        RSum(Tup([j \in 1..Len(tv[b]) |->
            RMul(RSub(tv[b][j], pv[b][j]), RSub(tv[b][j], pv[b][j]))]))])

(* C7: the mapping compute_metrics returns has under "loss" the mean over   *)
(* all batch elements and coordinates of (target - predicted)^2, which is   *)
(* not negative and is zero exactly when predicted and target velocity      *)
(* agree everywhere; this holds also when the base metrics have a "loss"    *)
(* entry, and every other base metric is returned as it is.                 *)
C7_LossIsMeanSquaredError ==
    (train.made /\ ret.kind = "metrics") =>
        LET tv == train.target_velocity
            pv == train.predicted_velocity
            count == Len(tv) * Len(tv[1])
            loss == ret.metrics["loss"]
        IN /\ DOMAIN ret.metrics = (DOMAIN train.base_metrics) \cup {"loss"}
           /\ RMul(R(count), loss) = RSum(SquaredErrors(tv, pv))
           /\ RLeq(Zero, loss)
           /\ (loss = Zero) <=> (pv = tv)
           /\ \A k \in (DOMAIN train.base_metrics) \ {"loss"} :
                 ret.metrics[k] = train.base_metrics[k]

(* A call on two coordinates whose base metrics hold "loss" and "kl" and    *)
(* whose two rows have different squared errors                             *)
C7_Witness ==
    /\ train.made
    /\ ret.kind = "metrics"
    /\ DOMAIN train.base_metrics = {"loss", "kl"}
    /\ ret.metrics["loss"] # train.base_metrics["loss"]
    /\ Len(train.target_velocity[1]) = 2
    /\ LET e == SquaredErrors(train.target_velocity, train.predicted_velocity)
       IN e[1] # e[2] /\ e[1] # Zero

-----------------------------------------------------------------------------
(* Properties of a session *)

(* The options of a call without the `integrator` keyword *)
PlainKwargs(kw) ==
    [steps_given |-> kw.steps_given, steps |-> kw.steps,
     density_given |-> kw.density_given, density |-> kw.density]

NamesIntegrator(kw) == "integrator" \in DOMAIN kw

TrainingPair(tr) == <<tr.x0, tr.x1, tr.t, tr.x, tr.target_velocity>>

(* C12: frame of the mutable state.  No step of a call (its start, an       *)
(* integration step, its return) changes the velocity-field parameters or   *)
(* the seed generator.  A compute_metrics on a tensor takes from the seed   *)
(* generator the x0 draw, then the coupling if optimal transport is         *)
(* enabled, then the t draw, and nothing else; a compute_metrics on a       *)
(* pre-configured sequence takes nothing and works on the five given values *)
(* as they are.                                                             *)
C12_Frame ==
    [][ /\ (pc = "integrating" \/ pc' = "integrating") =>
              (params' = params /\ seed' = seed)
        /\ (pc = "idle" /\ pc' = "idle" /\ built' = built) =>
              /\ train'.made
              /\ params' = params
              /\ IF train'.preconfigured
                 THEN /\ seed' = seed
                      /\ train'.draws = <<>>
                      /\ TrainingPair(train') \in PreConfigured(built.units)
                 ELSE /\ train'.draws = IF use_ot THEN <<"x0", "ot", "t">>
                                                  ELSE <<"x0", "t">>
                      /\ seed' = seed + Len(train'.draws)
      ]_vars

(* After a compute_metrics with coupling took its three draws, one on a     *)
(* pre-configured sequence whose x is not the interpolation of its x0 and   *)
(* x1 has been made, and the seed generator stands where it stood.          *)
C12_Witness ==
    /\ train.made
    /\ train.preconfigured
    /\ use_ot
    /\ seed = draws_of(TRUE)
    /\ train.x # interpolate(train.t, train.x1, train.x0)

(* Reachability probes *)
ZeroLossReached ==
    train.made /\ ret.kind = "metrics" /\ ret.metrics["loss"] = Zero

ConditionsOnUnconditionalReturned ==
    Returned /\ frame.call.conditions # NoConditions /\ BuiltWithoutConditions

====
